---- MODULE Spec2Model ----
(***************************************************************************)
(* Model of build.ts of covid-tracker-data: the batch job that reads the   *)
(* NYT us / us-states / us-counties feeds (and, in one revision, the Covid *)
(* Tracking Project testing feeds), derives newCases/newDeaths per region  *)
(* and writes the "all" and "90d" extracts.                                *)
(*                                                                         *)
(* src/build.ts holds three revisions of the script:                       *)
(*   lines   1-306  with testing data (processData joins the CT feed),     *)
(*   lines 307-517  with header validation (parseUs/parseStates/...),      *)
(*   lines 518-765  the current one, with the row-count sanity checks.     *)
(***************************************************************************)
EXTENDS Integers, Sequences, FiniteSets, TLC

VARIABLES
  \* -- processData called on its own (SpecPD) --
  data,            \* the rows handed to processData
  testingData,     \* its optional third argument
  groupByFn,       \* its groupBy callback
  out,             \* the rows after the call (processData mutates them in place)
  called,          \* whether processData has run
  \* -- one run of the script --
  pc,              \* where run() stands
  exitCode,        \* -1 while running, 0 after a clean end, 1 after process.exit(1)
  fed,             \* records the current feed has delivered so far
  latestDate,      \* module-level latestDate
  date90DaysAgo,   \* module-level date90DaysAgo
  usRows,          \* rows of us.csv
  stateNameToFips, \* module-level state name -> fips mapping
  stateRows,       \* rows of us-states.csv
  nytData,         \* national + state rows handed to the writers
  groupedByStateFips, \* county rows per state fips, in insertion order
  loopKeys,        \* keys the for-in loop of buildCountyFiles has yet to finish
  files,           \* the output tree: path -> content
  files0,          \* the output tree the run started with
  fetch,           \* state of the promise of every fetch of the first revision
  ctUsData,        \* body of the national testing feed
  ctStateData      \* body of the state testing feed

pdVars  == <<data, testingData, groupByFn, out, called>>
runVars == <<pc, exitCode, fed, latestDate, date90DaysAgo, usRows, stateNameToFips,
             stateRows, nytData, groupedByStateFips, loopKeys, files, files0>>
fanVars == <<fetch, ctUsData, ctStateData>>
vars    == <<pdVars, runVars, fanVars>>

-----------------------------------------------------------------------------
(* JavaScript values.  A CSV cell is text; a JSON field is a number, null   *)
(* or absent; a derived field is a number, NaN or null.                     *)

Num(n)    == [t |-> "number", n |-> n]
NumStr(n) == [t |-> "numstr", n |-> n]      \* the text of the integer n
Text      == [t |-> "text", n |-> 0]        \* text that is no number ("abc")
Empty     == [t |-> "empty", n |-> 0]       \* the empty string
NaN       == [t |-> "NaN", n |-> 0]
Null      == [t |-> "null", n |-> 0]
Undefined == [t |-> "undefined", n |-> 0]

\* row.f in JavaScript: undefined when the property is absent
Get(row, f) == IF f \in DOMAIN row THEN row[f] ELSE Undefined

\* Number(value)
Number(v) ==
  CASE v.t = "number" -> v
    [] v.t = "numstr" -> Num(v.n)
    [] v.t = "empty"  -> Num(0)
    [] v.t = "null"   -> Num(0)
    [] OTHER          -> NaN

\* a - b on JavaScript numbers
Minus(a, b) == IF a.t = "number" /\ b.t = "number" THEN Num(a.n - b.n) ELSE NaN

\* value == undefined ? null : Number(value)
coerceNumber(value) ==
  IF value.t \in {"undefined", "null"} THEN Null ELSE Number(value)

\* `${ds.substring(0, 4)}-${ds.substring(4, 6)}-${ds.substring(6, 8)}` of an
\* 8-digit date number; a 'YYYY-MM-DD' text is the triple <<YYYY, MM, DD>>
ctDateKey(n) == <<n \div 10000, (n \div 100) % 100, n % 100>>

-----------------------------------------------------------------------------
(* processData                                                              *)

\* the two groupBy callbacks the script passes
byState  == "state"            \* row => row.state
byCounty == "state^county"     \* row => row.state + '^' + row.county (a template string)

groupKey(groupBy, row) ==
  IF groupBy = byState THEN row.state
  ELSE row.state \o "^" \o row.county

NoTesting == [given |-> FALSE, rows |-> <<>>]
Testing(rows) == [given |-> TRUE, rows |-> rows]

Max(S) == CHOOSE x \in S : \A y \in S : y <= x
Range(seq) == {seq[i] : i \in DOMAIN seq}
\* the element of a one-element set (used to compute a value once)
TheOne(S) == CHOOSE x \in S : TRUE

\* groupedByFips[row.fips] || {} , then [row.date]: keyBy keeps the last
\* record of a (fips, date) pair
dataOnDate_anyFips(rows, row) ==
  LET hits == {i \in DOMAIN rows : ctDateKey(rows[i].date) = row.date}
  IN  IF hits = {} THEN Undefined ELSE rows[Max(hits)]

dataOnDate(rows, row) ==
  LET hits == {i \in DOMAIN rows :
                 rows[i].fips = row.fips /\ ctDateKey(rows[i].date) = row.date}
  IN  IF hits = {} THEN Undefined ELSE rows[Max(hits)]

attachTesting(row, rec) ==
  [positive    |-> coerceNumber(Get(rec, "positive")),
   negative    |-> coerceNumber(Get(rec, "negative")),
   pending     |-> coerceNumber(Get(rec, "pending")),
   tests       |-> coerceNumber(Get(rec, "total")),
   newPositive |-> coerceNumber(Get(rec, "positiveIncrease")),
   newNegative |-> coerceNumber(Get(rec, "negativeIncrease")),
   newTests    |-> coerceNumber(Get(rec, "totalTestResultsIncrease"))] @@ row

joinTesting(rows, testing) ==
  IF ~testing.given THEN rows
  ELSE [i \in DOMAIN rows |->
          LET rec == dataOnDate(testing.rows, rows[i])
          IN  IF rec = Undefined THEN rows[i] ELSE attachTesting(rows[i], rec)]

\* _.groupBy: for a key, the positions of its rows in input order
groupIndices(keys, k) ==
  SelectSeq([i \in DOMAIN keys |-> i], LAMBDA i : keys[i] = k)

RECURSIVE deltaLoop_staleLast(_, _, _, _, _)
deltaLoop_staleLast(rows, idx, i, lastCases, lastDeaths) ==
  IF i > Len(idx) THEN rows
  ELSE LET row == rows[idx[i]]
           upd == [newCases  |-> Minus(Number(Get(row, "cases")), lastCases),
                   newDeaths |-> Minus(Number(Get(row, "deaths")), lastDeaths)] @@ row
       IN  deltaLoop_staleLast([rows EXCEPT ![idx[i]] = upd], idx, i + 1,
                               lastCases, lastDeaths)

\* the loop over one group's rows, from its i-th row on
RECURSIVE deltaLoop(_, _, _, _, _)
deltaLoop(rows, idx, i, lastCases, lastDeaths) ==
  IF i > Len(idx) THEN rows
  ELSE LET row == rows[idx[i]]
           upd == [newCases  |-> Minus(Number(Get(row, "cases")), lastCases),
                   newDeaths |-> Minus(Number(Get(row, "deaths")), lastDeaths)] @@ row
       IN  deltaLoop([rows EXCEPT ![idx[i]] = upd], idx, i + 1,
                     Number(Get(row, "cases")), Number(Get(row, "deaths")))

deltaGroup_firstNull(rows, idx) ==
  LET first == rows[idx[1]]
      init  == [newCases |-> Null, newDeaths |-> Null] @@ first
  IN  deltaLoop([rows EXCEPT ![idx[1]] = init], idx, 2,
                Number(Get(first, "cases")), Number(Get(first, "deaths")))

\* one group: the first row takes its own counts, the others the difference
deltaGroup(rows, idx) ==
  LET first      == rows[idx[1]]
      lastCases  == Number(Get(first, "cases"))
      lastDeaths == Number(Get(first, "deaths"))
      init       == [newCases |-> lastCases, newDeaths |-> lastDeaths] @@ first
  IN  deltaLoop([rows EXCEPT ![idx[1]] = init], idx, 2, lastCases, lastDeaths)

\* for (const group in grouped): every group in turn; a group's turn writes
\* the rows of that group only, so a row ends as its own group's turn leaves it
eachRowOfItsGroup(rows, keys, turn) == [i \in DOMAIN rows |-> turn[keys[i]][i]]

deltaGroups(rows, keys) ==
  TheOne({eachRowOfItsGroup(rows, keys, turn) :
            turn \in {[k \in Range(keys) |-> deltaGroup(rows, groupIndices(keys, k))]}})

processData_oneSeries(rows, groupBy, testing) ==
  LET joined == joinTesting(rows, testing)
      keys   == [i \in DOMAIN joined |-> "all"]
  IN  deltaGroups(joined, keys)

processData(rows, groupBy, testing) ==
  LET joined == joinTesting(rows, testing)
      keys   == [i \in DOMAIN joined |-> groupKey(groupBy, joined[i])]
  IN  deltaGroups(joined, keys)

-----------------------------------------------------------------------------
(* SpecPD: processData applied to bounded inputs                            *)

MaxRows     == 3      \* rows of a series handed to processData alone
MaxJoinRows == 2      \* case rows when a testing series is joined
MaxTests    == 2      \* records of the testing series

SeqsUpTo(S, n) == UNION {[1..k -> S] : k \in 0..n}

\* cumulative (cases, deaths) cells: numeric text, and one malformed pair
CountCells     == {<<NumStr(1), NumStr(0)>>, <<NumStr(3), NumStr(1)>>, <<Text, Empty>>}
PdDates        == {<<2020, 4, 1>>, <<2020, 4, 2>>, <<2020, 4, 4>>}
JoinDates      == {<<2020, 4, 1>>, <<2020, 4, 2>>}
PdRegions      == {<<"US", <<"0", "0">>>>, <<"Alabama", <<"0", "1">>>>}
PdCounties     == {<<"Alabama", "Autauga">>, <<"Alabama", "Baldwin">>}

StateRow(d, reg, c) ==
  [date |-> d, state |-> reg[1], fips |-> reg[2], cases |-> c[1], deaths |-> c[2]]
CountyRow(d, sc, f, c) ==
  [date |-> d, county |-> sc[2], state |-> sc[1], fips |-> f,
   cases |-> c[1], deaths |-> c[2]]

PdStateRows  == {StateRow(d, reg, c) : d \in PdDates, reg \in PdRegions, c \in CountCells}
PdCountyRows == {CountyRow(d, sc, <<"0", "1", "0", "0", "1">>, c) :
                   d \in JoinDates, sc \in PdCounties, c \in CountCells}
\* the case rows a testing series is joined to: the counts grow with the date
JoinCells(d) == IF d = <<2020, 4, 1>> THEN <<NumStr(1), NumStr(0)>>
                ELSE <<NumStr(3), NumStr(1)>>
JoinRows     == {StateRow(d, reg, JoinCells(d)) : d \in JoinDates, reg \in PdRegions}

\* a record of the Covid Tracking Project daily feed, with every field, and
\* one that carries the two components only
CtFull(f, d) ==
  [fips |-> f, date |-> d, positive |-> Num(100), negative |-> Num(50),
   pending |-> Num(5), total |-> Num(150), positiveIncrease |-> Num(10),
   negativeIncrease |-> Num(5), totalTestResultsIncrease |-> Num(15)]
CtBare(f, d) ==
  [fips |-> f, date |-> d, positive |-> Num(100), negative |-> Num(50)]
CtDates == {20200401, 20200402}
CtFips  == {<<"0", "0">>, <<"0", "1">>}
CtRecords == {CtFull(f, d) : f \in CtFips, d \in CtDates}
               \cup {CtBare(f, d) : f \in CtFips, d \in CtDates}

\* no fetch has been started
FetchIdle == [nytUs |-> "idle", ctUs |-> "idle", nytStates |-> "idle",
              ctStates |-> "idle", nytCounties |-> "idle"]
FanIdle == fetch = FetchIdle /\ ctUsData = <<>> /\ ctStateData = <<>>

\* the variables of a run, before it starts (unused by SpecPD)
RunIdle ==
  /\ loopKeys = <<>>
  /\ FanIdle
  /\ pc = "idle" /\ exitCode = -1 /\ fed = <<0, 0>>
  /\ latestDate = [k |-> "null", day |-> 0]
  /\ date90DaysAgo = [k |-> "null", day |-> 0]
  /\ usRows = <<>> /\ stateNameToFips = <<>> /\ stateRows = <<>> /\ nytData = <<>>
  /\ groupedByStateFips = <<>>
  /\ files = <<>> /\ files0 = <<>>

InitPD ==
  /\ RunIdle
  /\ \/ /\ data \in SeqsUpTo(PdStateRows, MaxRows)
        /\ groupByFn = byState
        /\ testingData = NoTesting
     \/ /\ data \in SeqsUpTo(PdCountyRows, MaxRows)
        /\ groupByFn = byCounty
        /\ testingData = NoTesting
     \/ /\ data \in SeqsUpTo(JoinRows, MaxJoinRows)
        /\ groupByFn = byState
        /\ testingData \in {Testing(t) : t \in SeqsUpTo(CtRecords, MaxTests)}
  /\ out = <<>>
  /\ called = FALSE

CallProcessData ==
  /\ ~called
  /\ out' = processData(data, groupByFn, testingData)
  /\ called' = TRUE
  /\ UNCHANGED <<data, testingData, groupByFn>>
  /\ UNCHANGED <<runVars, fanVars>>

NextPD == CallProcessData

SpecPD == InitPD /\ [][NextPD]_vars

-----------------------------------------------------------------------------
(* Properties of processData (SpecPD)                                       *)

KeyOf(i)        == groupKey(groupByFn, data[i])
SameGroupBefore(i) == {j \in 1..(i - 1) : KeyOf(j) = KeyOf(i)}
FirstOfGroup(i) == SameGroupBefore(i) = {}
PrevInGroup(i)  == Max(SameGroupBefore(i))
IsNumeric(v)    == v.t = "numstr"
Has(row, f)     == f \in DOMAIN row /\ row[f] \notin {Null, Undefined}

\* the testing record the join should pick for row i: the last one of the
\* row's fips whose date number spells the row's date
MatchIdx(i) == {j \in DOMAIN testingData.rows :
                  /\ testingData.rows[j].fips = data[i].fips
                  /\ testingData.rows[j].date =
                       data[i].date[1] * 10000 + data[i].date[2] * 100 + data[i].date[3]}
HasTesting(i) == testingData.given /\ MatchIdx(i) # {}
MatchRec(i)   == testingData.rows[Max(MatchIdx(i))]
TestingFields == {"tests", "newTests", "positive", "newPositive", "negative",
                  "newNegative", "pending"}

\* C1: the first record of every group gets newCases = its own cumulative
\* cases and newDeaths = its own cumulative deaths (delta from zero), and
\* neither is left null or absent.
C1_FirstRecordDeltaFromZero ==
  called =>
    \A i \in DOMAIN data :
      FirstOfGroup(i) =>
        /\ Has(out[i], "newCases") /\ Has(out[i], "newDeaths")
        /\ IsNumeric(data[i].cases) => out[i].newCases = Num(data[i].cases.n)
        /\ IsNumeric(data[i].deaths) => out[i].newDeaths = Num(data[i].deaths.n)

\* a second group's first record, after the first group's rows
C1_Witness ==
  /\ called
  /\ \E i \in DOMAIN data :
       /\ i > 1 /\ FirstOfGroup(i)
       /\ IsNumeric(data[i].cases) /\ out[i].newCases = Num(3)
       /\ out[i].newDeaths = Num(1)

\* C2: every later record of a group gets newCases = cases - cases of the
\* immediately preceding record of the same group, and likewise newDeaths,
\* whatever the dates of the two records (no gap filling).
C2_AdjacentDifference ==
  called =>
    \A i \in DOMAIN data :
      ~FirstOfGroup(i) =>
        LET p == PrevInGroup(i) IN
        /\ (IsNumeric(data[i].cases) /\ IsNumeric(data[p].cases))
             => out[i].newCases = Num(data[i].cases.n - data[p].cases.n)
        /\ (IsNumeric(data[i].deaths) /\ IsNumeric(data[p].deaths))
             => out[i].newDeaths = Num(data[i].deaths.n - data[p].deaths.n)

\* a group of three records, the last two a date apart with a day skipped,
\* whose last delta differs from the delta to the first record
C2_Witness ==
  /\ called /\ Len(data) = 3
  /\ KeyOf(1) = KeyOf(2) /\ KeyOf(2) = KeyOf(3)
  /\ data[2].date = <<2020, 4, 2>> /\ data[3].date = <<2020, 4, 4>>
  /\ data[1].cases = NumStr(1) /\ data[2].cases = NumStr(3) /\ data[3].cases = NumStr(1)
  /\ out[3].newCases = Num(-2)

\* C9: what a group's rows get depends on that group's rows alone: it is
\* what processData gives when handed the group's rows without the others.
C9_NoLeakAcrossGroups ==
  called =>
    \A k \in {KeyOf(i) : i \in DOMAIN data} :
      LET idx   == groupIndices([i \in DOMAIN data |-> KeyOf(i)], k)
          own   == [j \in 1..Len(idx) |-> data[idx[j]]]
          alone == processData(own, groupByFn, testingData)
      IN  \A j \in 1..Len(idx) :
            /\ out[idx[j]].newCases = alone[j].newCases
            /\ out[idx[j]].newDeaths = alone[j].newDeaths

\* two groups interleaved: a row of another group between two rows of one
C9_Witness ==
  /\ called /\ Len(data) = 3
  /\ KeyOf(1) = KeyOf(3) /\ KeyOf(1) # KeyOf(2)
  /\ data[1].cases = NumStr(1) /\ data[2].cases = NumStr(1) /\ data[3].cases = NumStr(3)
  /\ out[3].newCases = Num(2)

\* C4: a row matched with a testing record that has positive and negative
\* but no total gets tests = positive + negative.
C4_TestsReconstructed ==
  called =>
    \A i \in DOMAIN data :
      (/\ HasTesting(i)
       /\ "total" \notin DOMAIN MatchRec(i)
       /\ Has(MatchRec(i), "positive") /\ Has(MatchRec(i), "negative"))
      => Get(out[i], "tests") = Num(MatchRec(i).positive.n + MatchRec(i).negative.n)

\* C7: with a testing series that has no record of a row's fips (an empty
\* one included) the row keeps every testing field null or absent, and its
\* newCases/newDeaths are those computed without a testing series.
C7_NoTestingLeavesFieldsNull ==
  (called /\ testingData.given) =>
    \A i \in DOMAIN data :
      (\A j \in DOMAIN testingData.rows : testingData.rows[j].fips # data[i].fips)
      => /\ \A f \in TestingFields : ~Has(out[i], f)
         /\ Has(out[i], "newCases") /\ Has(out[i], "newDeaths")
         /\ FirstOfGroup(i) => out[i].newCases = Num(data[i].cases.n)
         /\ ~FirstOfGroup(i) =>
              out[i].newCases = Num(data[i].cases.n - data[PrevInGroup(i)].cases.n)

\* a testing series with records of one fips only: the row of the other fips
\* stays bare while a row of the covered fips on the same date is joined
C7_Witness ==
  /\ called /\ testingData.given /\ Len(testingData.rows) > 0 /\ Len(data) = 2
  /\ \A j \in DOMAIN testingData.rows : testingData.rows[j].fips # data[2].fips
  /\ data[1].date = data[2].date
  /\ HasTesting(1) /\ Has(out[1], "positive")
  /\ \A f \in TestingFields : ~Has(out[2], f)
  /\ out[2].newCases = Num(3)

\* C10: on rows with testing data newTests/newPositive/newNegative
\* are first differences of the cumulative tests/positive/negative: the
\* cumulative value on the group's first such row, the difference to the
\* preceding record's cumulative value afterwards.
C10_TestDeltasAreFirstDifferences ==
  called =>
    \A i \in DOMAIN data :
      HasTesting(i) =>
        LET before == {j \in SameGroupBefore(i) : HasTesting(j)} IN
        IF before = {}
        THEN /\ Get(out[i], "newPositive") = Get(out[i], "positive")
             /\ Get(out[i], "newNegative") = Get(out[i], "negative")
             /\ Get(out[i], "newTests") = Get(out[i], "tests")
        ELSE LET p == Max(before) IN
             /\ Get(out[i], "newPositive")
                  = Minus(Get(out[i], "positive"), Get(out[p], "positive"))
             /\ Get(out[i], "newNegative")
                  = Minus(Get(out[i], "negative"), Get(out[p], "negative"))
             /\ Get(out[i], "newTests") = Minus(Get(out[i], "tests"), Get(out[p], "tests"))

\* a cumulative value that is absent or is text that spells no number
NotANumber(v) == v.t \in {"text", "undefined"}
GroupIsNumeric(i) ==
  \A j \in DOMAIN data :
    KeyOf(j) = KeyOf(i) => IsNumeric(data[j].cases) /\ IsNumeric(data[j].deaths)
DeltaOf(i, f) ==
  IF FirstOfGroup(i) THEN Num(data[i][f].n)
  ELSE Num(data[i][f].n - data[PrevInGroup(i)][f].n)

\* C13: a record whose cumulative cases (deaths) is missing or non-numeric
\* gets newCases (newDeaths) = null, and the records of the regions whose
\* values are all numeric keep their deltas.
C13_NonNumericGivesNull ==
  called =>
    \A i \in DOMAIN data :
      /\ NotANumber(Get(data[i], "cases")) => Get(out[i], "newCases") = Null
      /\ NotANumber(Get(data[i], "deaths")) => Get(out[i], "newDeaths") = Null
      /\ GroupIsNumeric(i) =>
           /\ out[i].newCases = DeltaOf(i, "cases")
           /\ out[i].newDeaths = DeltaOf(i, "deaths")

-----------------------------------------------------------------------------
(* Text, dates and the output tree                                          *)

MinRows    == 10     \* nytUsData.length < 10, nytStateData.length < 10
MinStates  == 50     \* numStates < 50
WindowDays == 97     \* .subtract(97, 'days')

DigitChars == <<"0", "1", "2", "3", "4", "5", "6", "7", "8", "9">>
IsDigit(c)   == \E n \in 1..10 : DigitChars[n] = c
DigitVal(c)  == (CHOOSE n \in 1..10 : DigitChars[n] = c) - 1
DigitChar(n) == DigitChars[n + 1]

\* a text as a string, from its characters
RECURSIVE Join(_)
Join(chars) == IF chars = <<>> THEN "" ELSE chars[1] \o Join(Tail(chars))

\* String(undefined), the property key an undefined fips turns into
UndefinedKey == <<"u", "n", "d", "e", "f", "i", "n", "e", "d">>

\* fips.replace(/\D/g, '')
safeFips(fips) == SelectSeq(fips, IsDigit)

\* createDate(d).getTime(), counted in days: local midnight of <<y, m, d>>
DayNumber(date) ==
  LET y   == IF date[2] <= 2 THEN date[1] - 1 ELSE date[1]
      era == y \div 400
      yoe == y - era * 400
      mp  == (date[2] + 9) % 12
      doy == (153 * mp + 2) \div 5 + date[3] - 1
      doe == yoe * 365 + yoe \div 4 - yoe \div 100 + doy
  IN  era * 146097 + doe - 719468

createDate(d) == [k |-> "date", day |-> DayNumber(d)]
NullDate      == [k |-> "null", day |-> 0]
InvalidDate   == [k |-> "invalid", day |-> 0]

\* moment(latestDate).subtract(97, 'days').toDate(); moment(null) is invalid
subtractWindow(latest) ==
  IF latest.k = "date" THEN [k |-> "date", day |-> latest.day - WindowDays]
  ELSE InvalidDate

inWindow_strictlyAfter(row, cutoff) ==
  cutoff.k = "date" /\ DayNumber(row.date) > cutoff.day

\* createDate(row.date).getTime() >= date90DaysAgo.getTime()
inWindow(row, cutoff) == cutoff.k = "date" /\ DayNumber(row.date) >= cutoff.day

rows90days(rows, cutoff) == SelectSeq(rows, LAMBDA row : inWindow(row, cutoff))

\* a cell as csv.stringify writes it
CountColumns == {"cases", "newCases", "deaths", "newDeaths", "tests", "newTests",
                 "positive", "newPositive", "negative", "newNegative", "pending"}
NaNText == [t |-> "text", n |-> 1]          \* the text "NaN"
csvCell(column, row) ==
  IF column \notin CountColumns THEN row[column]
  ELSE LET v == Get(row, column)
       IN  CASE v.t = "number" -> NumStr(v.n)
             [] v.t = "NaN" -> NaNText
             [] v.t \in {"null", "undefined"} -> Empty
             [] OTHER -> v

\* csv.stringify(rows, {header: true, columns})
stringify(rows, columns) ==
  [columns |-> columns,
   rows |-> [i \in DOMAIN rows |-> [c \in Range(columns) |-> csvCell(c, rows[i])]]]

Path(dir, name) == [dir |-> dir, name |-> name]

\* fs.writeFileSync(path, output)
writeFile(fs, path, content) == (path :> content) @@ fs
\* fs.unlinkSync(path), a missing file ignored
unlink(fs, path) == [q \in DOMAIN fs \ {path} |-> fs[q]]
\* clearDir(directory)
clearDir(fs, dir) == [q \in {x \in DOMAIN fs : x.dir # dir} |-> fs[q]]

StateColumns  == <<"date", "state", "fips", "cases", "newCases", "deaths", "newDeaths">>
CountyColumns == <<"date", "county", "state", "fips", "cases", "newCases", "deaths",
                   "newDeaths">>

StateDir    == "./data/state"
CountyAll   == "./data/county/all"
County90    == "./data/county/90d"

\* what an earlier run left behind
Previous == [columns |-> <<"previous run">>, rows |-> <<>>]
PriorFiles ==
  [q \in {Path(StateDir, "all.csv"), Path(StateDir, "90d.csv"),
          Path(CountyAll, "01.csv"), Path(County90, "01.csv"),
          Path(CountyAll, "99.csv"), Path(County90, "99.csv")} |-> Previous]

-----------------------------------------------------------------------------
(* The feeds a run reads.  A feed is a leading part of a fixed series of    *)
(* rows (long enough to pass the sanity checks), followed, once the series  *)
(* is complete, by a few rows chosen freely from a small set.  A feed may    *)
(* end, or its parser may report an error, after any number of rows.  A     *)
(* fips cell is a sequence of pieces of text: single digits, or one piece   *)
(* holding a word.                                                          *)

MaxTail == 1           \* free rows after the national and the county series
MaxStateTail == 2      \* free rows after the state series

UsBulk     == MinRows
StateBulk  == MinStates + 2
CountyBulk == MinStates + 2

StateName(i) == "State" \o ToString(i)
Fips2(i)     == <<DigitChar(i \div 10), DigitChar(i % 10)>>

UsBulkRow(i) ==
  [date |-> <<2020, 1, 20 + i>>, cases |-> NumStr(i), deaths |-> NumStr(i \div 3)]
UsTailRows ==
  {[date |-> <<2020, 4, 28>>, cases |-> NumStr(20), deaths |-> NumStr(5)]}

\* MinStates states, then a region whose name is a property of
\* Object.prototype, then a region whose fips cell is such a name
StateBulkRow(i) ==
  IF i <= MinStates
  THEN StateRow(IF i % 2 = 1 THEN <<2020, 1, 21>> ELSE <<2020, 1, 22>>,
                <<StateName(i), Fips2(i)>>, <<NumStr(i), NumStr(0)>>)
  ELSE IF i = MinStates + 1
  THEN StateRow(<<2020, 4, 27>>, <<"constructor", <<"7", "7">>>>,
                <<NumStr(9), NumStr(2)>>)
  ELSE StateRow(<<2020, 4, 27>>, <<"Weird", <<"constructor">>>>,
                <<NumStr(1), NumStr(0)>>)
StateTailRows ==
  {StateRow(<<2020, 4, 27>>, <<"Guam", <<"6", "6">>>>, <<NumStr(4), NumStr(1)>>),
   StateRow(<<2020, 4, 27>>, <<"Guam", <<>>>>, <<NumStr(4), NumStr(1)>>)}

\* one county of each of the first MinStates - 1 states, a later row of the
\* first county, a county of the last state, and a row of the region named
\* after a property of Object.prototype
CountyBulkRow(i) ==
  IF i < MinStates
  THEN CountyRow(<<2020, 1, 21>>, <<StateName(i), "Adams">>,
                 Fips2(i) \o <<"0", "0", "1">>, <<NumStr(i), NumStr(0)>>)
  ELSE IF i = MinStates
  THEN CountyRow(<<2020, 4, 27>>, <<StateName(1), "Adams">>,
                 Fips2(1) \o <<"0", "0", "1">>, <<NumStr(7), NumStr(1)>>)
  ELSE IF i = MinStates + 1
  THEN CountyRow(<<2020, 1, 21>>, <<StateName(MinStates), "Adams">>,
                 Fips2(MinStates) \o <<"0", "0", "1">>, <<NumStr(2), NumStr(0)>>)
  ELSE CountyRow(<<2020, 4, 27>>, <<"constructor", "Unknown">>, <<>>,
                 <<NumStr(5), NumStr(1)>>)
CountyTailRows ==
  {CountyRow(<<2020, 4, 27>>, <<"Puerto Rico", "Unknown">>, <<>>,
             <<NumStr(5), NumStr(1)>>),
   CountyRow(<<2020, 4, 27>>, <<"Weird", "Unknown">>, <<>>,
             <<NumStr(1), NumStr(0)>>)}

-----------------------------------------------------------------------------
(* The current revision of the script (build.ts lines 518-765)              *)

\* stateNameToFips is a plain object: a name it has no entry for is looked
\* up on Object.prototype, whose properties are functions or, for __proto__,
\* the prototype itself
ObjectPrototypeNames ==
  {"constructor", "toString", "toLocaleString", "valueOf", "hasOwnProperty",
   "isPrototypeOf", "propertyIsEnumerable", "__proto__", "__defineGetter__",
   "__defineSetter__", "__lookupGetter__", "__lookupSetter__"}

\* String(Object.prototype[name]), the text in three pieces; it has no digit
inheritedKey(name) ==
  IF name = "__proto__" THEN <<"[object Object]">>
  ELSE <<"function ", IF name = "constructor" THEN "Object" ELSE name,
         "() { [native code] }">>

\* !stateNameToFips[state]: an entry that is the empty string, or no entry
\* and nothing inherited under that name
noFipsYet(mapping, state) ==
  IF state \in DOMAIN mapping THEN mapping[state] = <<>>
  ELSE state \notin ObjectPrototypeNames

\* the property key stateNameToFips[record.state] gives groupedByStateFips
stateFipsKey(mapping, state) ==
  IF state \in DOMAIN mapping THEN mapping[state]
  ELSE IF state \in ObjectPrototypeNames THEN inheritedKey(state)
  ELSE UndefinedKey

\* groupedByStateFips is a plain object too: under a key that names a
\* property of Object.prototype the lookup finds the inherited value
hasInherited(key) == Join(key) \in ObjectPrototypeNames

\* if (!groupedByStateFips[stateFips]) groupedByStateFips[stateFips] = [];
\* groupedByStateFips[stateFips].push(record): the entry is created when the
\* lookup finds nothing; an inherited value is truthy, no array is created
\* and the value has no push, a TypeError
pushGroup(grouped, key, record) ==
  IF hasInherited(key)
  THEN [error |-> "TypeError", groups |-> grouped]
  ELSE [error |-> "",
        groups |->
          IF \E i \in DOMAIN grouped : grouped[i].key = key
          THEN [i \in DOMAIN grouped |->
                  IF grouped[i].key = key
                  THEN [key |-> key, rows |-> Append(grouped[i].rows, record)]
                  ELSE grouped[i]]
          ELSE Append(grouped, [key |-> key, rows |-> <<record>>])]

\* an exception thrown in a listener of the parser: nothing catches it and
\* the process ends with code 1
Uncaught ==
  /\ pc' = "crashed"
  /\ exitCode' = 1

\* the largest array index, 2^32 - 2, digit by digit
MaxArrayIndex == <<"4", "2", "9", "4", "9", "6", "7", "2", "9", "4">>

\* a < b for decimal numerals without leading zeros
digitsLess(a, b) ==
  \/ Len(a) < Len(b)
  \/ /\ Len(a) = Len(b)
     /\ \E i \in DOMAIN a :
          /\ DigitVal(a[i]) < DigitVal(b[i])
          /\ \A j \in 1..(i - 1) : a[j] = b[j]

\* for (const fips in groupedByStateFips): canonical array indices (at most
\* 2^32 - 2) first, in ascending order, then the other keys in insertion order
IsArrayIndex(key) ==
  /\ Len(key) > 0
  /\ \A i \in DOMAIN key : IsDigit(key[i])
  /\ Len(key) = 1 \/ key[1] # "0"
  /\ ~digitsLess(MaxArrayIndex, key)

inRankOrder(keys, rank) ==
  [r \in 1..Cardinality(keys) |-> CHOOSE k \in keys : rank[k] = r - 1]
smallerKeys(keys) ==
  [k \in keys |-> Cardinality({o \in keys : digitsLess(o, k)})]
ascending(keys) ==
  TheOne({inRankOrder(keys, rank) : rank \in {smallerKeys(keys)}})

forInKeys(grouped) ==
  LET all == [i \in DOMAIN grouped |-> grouped[i].key]
  IN  ascending({k \in Range(all) : IsArrayIndex(k)})
        \o SelectSeq(all, LAMBDA k : ~IsArrayIndex(k))

groupRows(grouped, key) ==
  grouped[CHOOSE i \in DOMAIN grouped : grouped[i].key = key].rows

\* nytUsData.map(({date, cases, deaths}) => ({date, state: 'US', fips: '00', ...}))
usAsState(row) ==
  [date |-> row.date, state |-> "US", fips |-> <<"0", "0">>,
   cases |-> row.cases, deaths |-> row.deaths]

\* run()'s catch: console.error(error); process.exit(1)
Fail ==
  /\ pc' = "failed"
  /\ exitCode' = 1

\* the records a feed may deliver next
NextRecords(bulkRow, bulkLen, tailRows, maxTail) ==
  IF fed[1] < bulkLen THEN {bulkRow}
  ELSE IF fed[2] < maxTail THEN tailRows ELSE {}
parseNytUs_onRecord ==
  /\ pc = "parseNytUs"
  /\ \E record \in NextRecords(UsBulkRow(fed[1] + 1), UsBulk, UsTailRows, MaxTail) :
       LET d == createDate(record.date) IN
       /\ latestDate' = IF latestDate.k = "null" \/ d.day > latestDate.day
                         THEN d ELSE latestDate
       /\ usRows' = Append(usRows, record)
       /\ fed' = IF fed[1] < UsBulk THEN <<fed[1] + 1, 0>> ELSE <<fed[1], fed[2] + 1>>
  /\ UNCHANGED <<pdVars, loopKeys, fanVars, pc, exitCode, date90DaysAgo,
                 stateNameToFips, stateRows, nytData, groupedByStateFips, files,
                 files0>>

\* the feed ends: parseNytUs returns and buildStateFiles checks its length
parseNytUs_end ==
  /\ pc = "parseNytUs"
  /\ date90DaysAgo' = subtractWindow(latestDate)
  /\ IF Len(usRows) < MinRows
     THEN Fail
     ELSE pc' = "parseNytStates" /\ exitCode' = exitCode
  /\ fed' = <<0, 0>>
  /\ UNCHANGED <<pdVars, loopKeys, fanVars, latestDate, usRows, stateNameToFips,
                 stateRows, nytData, groupedByStateFips, files, files0>>

parseNytStates_onRecord ==
  /\ pc = "parseNytStates"
  /\ \E record \in NextRecords(StateBulkRow(fed[1] + 1), StateBulk, StateTailRows,
                                 MaxStateTail) :
       /\ stateNameToFips' =
            IF noFipsYet(stateNameToFips, record.state)
            THEN (record.state :> record.fips) @@ stateNameToFips
            ELSE stateNameToFips
       /\ stateRows' = Append(stateRows, record)
       /\ fed' = IF fed[1] < StateBulk THEN <<fed[1] + 1, 0>> ELSE <<fed[1], fed[2] + 1>>
  /\ UNCHANGED <<pdVars, loopKeys, fanVars, pc, exitCode, latestDate, date90DaysAgo,
                 usRows, nytData, groupedByStateFips, files, files0>>

\* the feed ends: the length check, the two unlinks and processData
parseNytStates_end ==
  /\ pc = "parseNytStates"
  /\ IF Len(stateRows) < MinRows
     THEN /\ Fail
          /\ UNCHANGED <<nytData, files>>
     ELSE /\ files' = unlink(unlink(files, Path(StateDir, "90d.csv")),
                             Path(StateDir, "all.csv"))
          /\ nytData' = processData([i \in DOMAIN usRows |-> usAsState(usRows[i])]
                                      \o stateRows, byState, NoTesting)
          /\ pc' = "writeStateAll" /\ exitCode' = exitCode
  /\ fed' = <<0, 0>>
  /\ UNCHANGED <<pdVars, loopKeys, fanVars, latestDate, date90DaysAgo, usRows,
                 stateNameToFips, stateRows, groupedByStateFips, files0>>

\* await writeCsvFile(nytData, columns, './data/state/all.csv')
writeStateAll ==
  /\ pc = "writeStateAll"
  /\ files' = writeFile(files, Path(StateDir, "all.csv"), stringify(nytData, StateColumns))
  /\ pc' = "writeState90"
  /\ UNCHANGED <<pdVars, loopKeys, fanVars, exitCode, fed, latestDate, date90DaysAgo,
                 usRows, stateNameToFips, stateRows, nytData, groupedByStateFips,
                 files0>>

\* await writeCsvFile(rows90days, columns, './data/state/90d.csv')
writeState90 ==
  /\ pc = "writeState90"
  /\ files' = writeFile(files, Path(StateDir, "90d.csv"),
                        stringify(rows90days(nytData, date90DaysAgo), StateColumns))
  /\ pc' = "parseNytCounties"
  /\ UNCHANGED <<pdVars, loopKeys, fanVars, exitCode, fed, latestDate, date90DaysAgo,
                 usRows, stateNameToFips, stateRows, nytData, groupedByStateFips,
                 files0>>

parseNytCounties_onRecord ==
  /\ pc = "parseNytCounties"
  /\ \E record \in NextRecords(CountyBulkRow(fed[1] + 1), CountyBulk, CountyTailRows,
                                 MaxTail) :
       LET pushed == pushGroup(groupedByStateFips,
                               stateFipsKey(stateNameToFips, record.state), record)
       IN  /\ groupedByStateFips' = pushed.groups
           /\ IF pushed.error # ""
              THEN Uncaught /\ UNCHANGED fed
              ELSE /\ pc' = pc /\ exitCode' = exitCode
                   /\ fed' = IF fed[1] < CountyBulk THEN <<fed[1] + 1, 0>>
                             ELSE <<fed[1], fed[2] + 1>>
  /\ UNCHANGED <<pdVars, loopKeys, fanVars, latestDate, date90DaysAgo, usRows,
                 stateNameToFips, stateRows, nytData, files, files0>>

parseNytCounties_end ==
  /\ pc = "parseNytCounties"
  /\ pc' = "clearDir90"
  /\ fed' = <<0, 0>>
  /\ UNCHANGED <<pdVars, loopKeys, fanVars, exitCode, latestDate, date90DaysAgo, usRows,
                 stateNameToFips, stateRows, nytData, groupedByStateFips, files,
                 files0>>

\* await clearDir('./data/county/90d')
clearDir90 ==
  /\ pc = "clearDir90"
  /\ files' = clearDir(files, County90)
  /\ pc' = "clearDirAll"
  /\ UNCHANGED <<pdVars, loopKeys, fanVars, exitCode, fed, latestDate, date90DaysAgo,
                 usRows, stateNameToFips, stateRows, nytData, groupedByStateFips,
                 files0>>

\* the file name a key of groupedByStateFips is written under
countyFileName(fips) == Join(safeFips(fips)) \o ".csv"

\* processData(rows, byCounty) on the rows of one key, in place
processGroup(grouped, key) ==
  [i \in DOMAIN grouped |->
     IF grouped[i].key = key
     THEN [key |-> key, rows |-> processData(grouped[i].rows, byCounty, NoTesting)]
     ELSE grouped[i]]

\* the name under which each file name is written last (synchronous loops)
lastKeyOfName(keys) ==
  [n \in {countyFileName(keys[i]) : i \in DOMAIN keys} |->
     keys[Max({i \in DOMAIN keys : countyFileName(keys[i]) = n})]]

\* await clearDir('./data/county/all'), then the numStates check and the
\* first iteration of the for-in loop up to its first await: processData on
\* the rows of the first key
clearDirAll ==
  /\ pc = "clearDirAll"
  /\ files' = clearDir(files, CountyAll)
  /\ IF Len(groupedByStateFips) < MinStates
     THEN /\ Fail
          /\ UNCHANGED <<loopKeys, groupedByStateFips>>
     ELSE /\ loopKeys' = forInKeys(groupedByStateFips)
          /\ groupedByStateFips' = processGroup(groupedByStateFips, Head(loopKeys'))
          /\ pc' = "countyWriteAll" /\ exitCode' = exitCode
  /\ UNCHANGED <<pdVars, fanVars, fed, latestDate, date90DaysAgo, usRows,
                 stateNameToFips, stateRows, nytData, files0>>

\* await writeCsvFile(rows, columns, './data/county/all/' + safeFips + '.csv')
countyWriteAll ==
  /\ pc = "countyWriteAll"
  /\ files' = writeFile(files, Path(CountyAll, countyFileName(Head(loopKeys))),
                        stringify(groupRows(groupedByStateFips, Head(loopKeys)),
                                  CountyColumns))
  /\ pc' = "countyWrite90"
  /\ UNCHANGED <<pdVars, fanVars, loopKeys, exitCode, fed, latestDate, date90DaysAgo,
                 usRows, stateNameToFips, stateRows, nytData, groupedByStateFips,
                 files0>>

\* await writeCsvFile(rows90days, columns, './data/county/90d/' + safeFips + '.csv'),
\* then the next iteration up to its first await, or the end of the loop
countyWrite90 ==
  /\ pc = "countyWrite90"
  /\ files' = writeFile(files, Path(County90, countyFileName(Head(loopKeys))),
                        stringify(rows90days(groupRows(groupedByStateFips,
                                                       Head(loopKeys)),
                                             date90DaysAgo),
                                  CountyColumns))
  /\ loopKeys' = Tail(loopKeys)
  /\ IF loopKeys' = <<>>
     THEN /\ pc' = "finish"
          /\ UNCHANGED groupedByStateFips
     ELSE /\ pc' = "countyWriteAll"
          /\ groupedByStateFips' = processGroup(groupedByStateFips, Head(loopKeys'))
  /\ UNCHANGED <<pdVars, fanVars, exitCode, fed, latestDate, date90DaysAgo, usRows,
                 stateNameToFips, stateRows, nytData, files0>>

\* parseNytCsv: the parser of the feed being read emits 'error'; the promise
\* rejects and run()'s catch exits
parseNytCsv_error ==
  /\ pc \in {"parseNytUs", "parseNytStates", "parseNytCounties"}
  /\ Fail
  /\ UNCHANGED <<pdVars, fanVars, loopKeys, fed, latestDate, date90DaysAgo, usRows,
                 stateNameToFips, stateRows, nytData, groupedByStateFips, files,
                 files0>>

\* writeCsvFile: csv.stringify reports an error, reject(err)
writeCsvFile_error ==
  /\ pc \in {"writeStateAll", "writeState90", "countyWriteAll", "countyWrite90"}
  /\ Fail
  /\ UNCHANGED <<pdVars, fanVars, loopKeys, fed, latestDate, date90DaysAgo, usRows,
                 stateNameToFips, stateRows, nytData, groupedByStateFips, files,
                 files0>>

\* clearDir: fs.readdir reports an error, reject(err)
clearDir_error ==
  /\ pc \in {"clearDir90", "clearDirAll"}
  /\ Fail
  /\ UNCHANGED <<pdVars, fanVars, loopKeys, fed, latestDate, date90DaysAgo, usRows,
                 stateNameToFips, stateRows, nytData, groupedByStateFips, files,
                 files0>>

\* console.log(`Finished in ...`)
finish ==
  /\ pc = "finish"
  /\ pc' = "done" /\ exitCode' = 0
  /\ UNCHANGED <<pdVars, loopKeys, fanVars, fed, latestDate, date90DaysAgo, usRows,
                 stateNameToFips, stateRows, nytData, groupedByStateFips, files,
                 files0>>

PdIdle ==
  /\ data = <<>> /\ testingData = NoTesting /\ groupByFn = byState
  /\ out = <<>> /\ called = FALSE

Init ==
  /\ loopKeys = <<>>
  /\ PdIdle /\ FanIdle
  /\ pc = "parseNytUs" /\ exitCode = -1 /\ fed = <<0, 0>>
  /\ latestDate = NullDate /\ date90DaysAgo = NullDate
  /\ usRows = <<>> /\ stateNameToFips = <<>> /\ stateRows = <<>> /\ nytData = <<>>
  /\ groupedByStateFips = <<>>
  /\ files0 = PriorFiles
  /\ files = files0

Next ==
  \/ parseNytUs_onRecord
  \/ parseNytUs_end
  \/ parseNytStates_onRecord
  \/ parseNytStates_end
  \/ writeStateAll
  \/ writeState90
  \/ parseNytCounties_onRecord
  \/ parseNytCounties_end
  \/ clearDir90
  \/ clearDirAll
  \/ countyWriteAll
  \/ countyWrite90
  \/ parseNytCsv_error
  \/ writeCsvFile_error
  \/ clearDir_error
  \/ finish

Spec == Init /\ [][Next]_vars

-----------------------------------------------------------------------------
(* Properties of a run of the current revision (Spec)                       *)

Written(q) == q \in DOMAIN files /\ files[q] # Previous

\* the county extract whose all-history file is written and whose
\* trailing-window file is still to come, or was when the run failed
HalfWritten ==
  IF loopKeys # <<>> /\ pc \in {"countyWrite90", "failed"}
  THEN {countyFileName(Head(loopKeys))}
  ELSE {}

\* the extracts of which this run has written both files
StatePair   == <<Path(StateDir, "all.csv"), Path(StateDir, "90d.csv")>>
CountyPairs == {<<Path(CountyAll, q.name), Path(County90, q.name)>> :
                  q \in {x \in DOMAIN files : /\ x.dir = CountyAll
                                               /\ x.name \notin HalfWritten}}
WrittenPairs == {pr \in {StatePair} \cup CountyPairs : Written(pr[1]) /\ Written(pr[2])}

\* (maximum date of the national feed) - 97 days, as a day number
NationalCutoff ==
  Max({DayNumber(usRows[i].date) : i \in DOMAIN usRows}) - WindowDays

OnOrAfterCutoff(rows) ==
  TheOne({SelectSeq(rows, LAMBDA r : DayNumber(r.date) >= cutoff) :
            cutoff \in {NationalCutoff}})

\* C3 as claimed: the trailing-window rows of every extract are exactly the
\* all-history rows dated on or after the cutoff, unchanged, and they are a
\* strict subset of the all-history rows.
C3_TrailingIsStrictSubset ==
  \A pr \in WrittenPairs :
    /\ files[pr[2]].rows = OnOrAfterCutoff(files[pr[1]].rows)
    /\ Len(files[pr[2]].rows) < Len(files[pr[1]].rows)

\* C3 amended: the trailing-window rows of every extract are exactly the
\* all-history rows dated on or after the cutoff (the maximum date of the
\* national feed minus 97 days), unchanged and in the same order: a subset
\* that is strict only when some all-history row is older than the cutoff.
C3_TrailingIsCutoffFilter ==
  \A pr \in WrittenPairs :
    files[pr[2]].rows = OnOrAfterCutoff(files[pr[1]].rows)

\* a finished run whose county extract 01 keeps one of its two rows and whose
\* state extract drops some rows and keeps others
C3_Witness ==
  /\ pc = "done"
  /\ Len(files[Path(CountyAll, "01.csv")].rows) = 2
  /\ Len(files[Path(County90, "01.csv")].rows) = 1
  /\ Len(files[StatePair[2]].rows) > 0
  /\ Len(files[StatePair[2]].rows) < Len(files[StatePair[1]].rows)

CountyStageOver == pc \in {"finish", "done"}

\* the step reads a county row whose state name the mapping has no entry for
ReadsUnmappedRow ==
  /\ pc = "parseNytCounties"
  /\ \E i \in DOMAIN groupedByStateFips' :
       /\ i \in DOMAIN groupedByStateFips =>
            groupedByStateFips'[i] # groupedByStateFips[i]
       /\ LET rows == groupedByStateFips'[i].rows
          IN  rows[Len(rows)].state \notin DOMAIN stateNameToFips

\* C6: a county row whose state name is not in the mapping built from the
\* state feed is in no county file when the county stage is over, and the
\* step that reads such a row does not end the run.
C6_UnmappedRowsExcluded ==
  /\ [](CountyStageOver =>
         \A q \in DOMAIN files :
           (q.dir \in {CountyAll, County90}) =>
             \A i \in DOMAIN files[q].rows :
               files[q].rows[i].state \in DOMAIN stateNameToFips)
  /\ [][ReadsUnmappedRow => pc' = pc /\ exitCode' = exitCode]_vars

\* the region codes the county rows read so far resolve to
UnmappedGroups ==
  {i \in DOMAIN groupedByStateFips :
     groupedByStateFips[i].rows[1].state \notin DOMAIN stateNameToFips}
MappedCodes ==
  {stateNameToFips[groupedByStateFips[i].rows[1].state] :
     i \in DOMAIN groupedByStateFips \ UnmappedGroups}

UsStageOver     == pc # "parseNytUs"
StateStageOver  == pc \notin {"parseNytUs", "parseNytStates"} /\ Len(usRows) >= MinRows
CountyReadOver  == StateStageOver /\ Len(stateRows) >= MinRows
                     /\ pc \notin {"writeStateAll", "writeState90", "parseNytCounties",
                                   "clearDir90", "clearDirAll"}
NoFileOf(dirs)  == \A q \in DOMAIN files : q.dir \in dirs => ~Written(q)
\* the process has ended with code 1, by run()'s catch or by an uncaught exception
EndedInFailure  == pc \in {"failed", "crashed"} /\ exitCode = 1

\* C8: fewer than 10 national rows, fewer than 10 state rows, or county data
\* covering fewer than 50 distinct region codes end the run in failure with
\* exit code 1; no later stage runs and no extract of the failing scope is
\* written.
C8_ShortFeedsAreFatal ==
  /\ (UsStageOver /\ Len(usRows) < MinRows) =>
       /\ EndedInFailure
       /\ stateRows = <<>> /\ groupedByStateFips = <<>> /\ files = files0
  /\ (StateStageOver /\ Len(stateRows) < MinRows) =>
       /\ EndedInFailure
       /\ groupedByStateFips = <<>> /\ files = files0
  /\ (CountyReadOver /\ Cardinality(MappedCodes) < MinStates) =>
       /\ EndedInFailure
       /\ NoFileOf({CountyAll, County90})

StateFeedRead == pc \notin {"parseNytUs", "parseNytStates"}
FirstRowNamed(name) ==
  CHOOSE i \in DOMAIN stateRows :
    /\ stateRows[i].state = name
    /\ \A j \in 1..(i - 1) : stateRows[j].state # name

\* C12: once the state feed has been read, every name occurring in it is
\* mapped to the code of the first row with that name, whatever that code
\* is; later rows with the name have not overwritten it.
C12_FirstSeenCodeKept ==
  StateFeedRead =>
    \A i \in DOMAIN stateRows :
      /\ stateRows[i].state \in DOMAIN stateNameToFips
      /\ stateNameToFips[stateRows[i].state]
           = stateRows[FirstRowNamed(stateRows[i].state)].fips

-----------------------------------------------------------------------------
(* The header-validating revision of the script (build.ts lines 307-517).   *)
(* A record is the array of its cells; a file is the sequence of the        *)
(* arrays written, one per line, the header array first.  The cells of this *)
(* model hold no comma, so row.join(',') keeps the cells apart.             *)

expectedUsHeader         == <<"date", "cases", "deaths">>
expectedUsStatesHeader   == <<"date", "state", "fips", "cases", "deaths">>
expectedUsCountiesHeader == <<"date", "county", "state", "fips", "cases", "deaths">>

NytStateDir  == "./data/nyt/state"
NytCountyAll == "./data/nyt/county/all"
NytCounty90  == "./data/nyt/county/90d"

\* the feeds: a header array, then up to MaxFeed records
MaxFeed == 2
ShortHeader == <<"date", "state", "fips">>
HdrUsRecords ==
  {<<d, "5", "1">> : d \in {<<2020, 1, 1>>, <<2020, 4, 28>>}}
HdrStateRecords ==
  {<<<<2020, 4, 27>>, "Weird", <<"constructor">>, "1", "0">>,
   <<<<2020, 1, 1>>, "Alabama", <<"0", "1">>, "3", "0">>,
   <<<<2020, 4, 27>>, "Alabama", <<"0", "1">>, "4", "0">>,
   <<<<2020, 4, 27>>, "Alaska", <<"0", "2">>, "1", "0">>}
HdrCountyRecords ==
  {<<<<2020, 4, 27>>, "Unknown", "Weird", <<>>, "1", "0">>,
   <<<<2020, 1, 1>>, "Autauga", "Alabama", <<"0", "1", "0", "0", "1">>, "1", "0">>,
   <<<<2020, 4, 27>>, "Autauga", "Alabama", <<"0", "1", "0", "0", "1">>, "2", "0">>,
   <<<<2020, 4, 27>>, "Unknown", "Puerto Rico", <<>>, "2", "0">>}
HdrPriorFiles ==
  [q \in {Path(NytStateDir, "all.csv"), Path(NytStateDir, "90d.csv"),
          Path(NytCountyAll, "01.csv"), Path(NytCounty90, "01.csv"),
          Path(NytCountyAll, "99.csv"), Path(NytCounty90, "99.csv")} |-> Previous]

\* throw new Error('Header for ... did not match'): nothing catches it
Throw ==
  /\ pc' = "aborted"
  /\ exitCode' = 1

\* a rejected promise leaves run(); nothing handles the rejection, and the
\* exit code is the runtime's choice for an unhandled rejection
Reject ==
  /\ pc' = "rejected"
  /\ exitCode' \in {0, 1}

\* rows.filter((row, i) => i === 0 || createDate(row[0]).getTime() >= date90DaysAgo.getTime())
filter90days(rows, cutoff) ==
  LET kept == SelectSeq([i \in DOMAIN rows |-> i],
                        LAMBDA i : \/ i = 1
                                   \/ /\ cutoff.k = "date"
                                      /\ createDate(rows[i][1]).day >= cutoff.day)
  IN  [j \in DOMAIN kept |-> rows[kept[j]]]

\* rows.map(row => row.join(',')).join('\n')
joinLines(rows) == [lines |-> rows]

parseUs_onHeader ==
  /\ pc = "parseUs.header"
  /\ \E record \in {expectedUsHeader, ShortHeader} :
       IF record # expectedUsHeader
       THEN Throw
       ELSE pc' = "parseUs" /\ exitCode' = exitCode
  /\ UNCHANGED <<pdVars, loopKeys, fanVars, fed, latestDate, date90DaysAgo, usRows,
                 stateNameToFips, stateRows, nytData, groupedByStateFips, files,
                 files0>>

parseUs_onRecord ==
  /\ pc = "parseUs" /\ Len(usRows) < MaxFeed
  /\ \E record \in HdrUsRecords :
       LET d == createDate(record[1]) IN
       /\ latestDate' = IF latestDate.k = "null" \/ d.day > latestDate.day
                         THEN d ELSE latestDate
       /\ usRows' = Append(usRows, record)
  /\ UNCHANGED <<pdVars, loopKeys, fanVars, pc, exitCode, fed, date90DaysAgo,
                 stateNameToFips, stateRows, nytData, groupedByStateFips, files,
                 files0>>

\* the feed ends (an empty feed delivers not even a header)
parseUs_end ==
  /\ pc \in {"parseUs.header", "parseUs"}
  /\ date90DaysAgo' = subtractWindow(latestDate)
  /\ pc' = "parseStates.header"
  /\ UNCHANGED <<pdVars, loopKeys, fanVars, exitCode, fed, latestDate, usRows,
                 stateNameToFips, stateRows, nytData, groupedByStateFips, files,
                 files0>>

parseStates_onHeader ==
  /\ pc = "parseStates.header"
  /\ \E record \in {expectedUsStatesHeader, ShortHeader} :
       IF record # expectedUsStatesHeader
       THEN Throw
       ELSE pc' = "parseStates" /\ exitCode' = exitCode
  /\ UNCHANGED <<pdVars, loopKeys, fanVars, fed, latestDate, date90DaysAgo, usRows,
                 stateNameToFips, stateRows, nytData, groupedByStateFips, files,
                 files0>>

parseStates_onRecord ==
  /\ pc = "parseStates" /\ Len(stateRows) < MaxFeed
  /\ \E record \in HdrStateRecords :
       /\ stateNameToFips' =
            IF noFipsYet(stateNameToFips, record[2])
            THEN (record[2] :> record[3]) @@ stateNameToFips
            ELSE stateNameToFips
       /\ stateRows' = Append(stateRows, record)
  /\ UNCHANGED <<pdVars, loopKeys, fanVars, pc, exitCode, fed, latestDate,
                 date90DaysAgo, usRows, nytData, groupedByStateFips, files, files0>>

\* [...usRows.map(([date, cases, deaths]) => [date, 'US', '00', cases, deaths]), ...rows]
\* with the header array in front
stateLines(us, rows) ==
  <<expectedUsStatesHeader>>
    \o [i \in DOMAIN us |-> <<us[i][1], "US", <<"0", "0">>, us[i][2], us[i][3]>>]
    \o rows

\* the feed ends: both files are removed, then written
parseStates_end ==
  /\ pc \in {"parseStates.header", "parseStates"}
  /\ files' =
       LET rows    == stateLines(usRows, stateRows)
           removed == unlink(unlink(files, Path(NytStateDir, "90d.csv")),
                             Path(NytStateDir, "all.csv"))
           all     == writeFile(removed, Path(NytStateDir, "all.csv"), joinLines(rows))
       IN  writeFile(all, Path(NytStateDir, "90d.csv"),
                     joinLines(filter90days(rows, date90DaysAgo)))
  /\ pc' = "parseCounties.header"
  /\ UNCHANGED <<pdVars, loopKeys, fanVars, exitCode, fed, latestDate, date90DaysAgo,
                 usRows, stateNameToFips, stateRows, nytData, groupedByStateFips,
                 files0>>

parseCounties_onHeader ==
  /\ pc = "parseCounties.header"
  /\ \E record \in {expectedUsCountiesHeader, ShortHeader} :
       IF record # expectedUsCountiesHeader
       THEN Throw
       ELSE pc' = "parseCounties" /\ exitCode' = exitCode
  /\ UNCHANGED <<pdVars, loopKeys, fanVars, fed, latestDate, date90DaysAgo, usRows,
                 stateNameToFips, stateRows, nytData, groupedByStateFips, files,
                 files0>>

\* the records the county feed has delivered so far
RECURSIVE groupedRecords(_)
groupedRecords(grouped) ==
  IF grouped = <<>> THEN 0
  ELSE Len(grouped[1].rows) + groupedRecords(Tail(grouped))

parseCounties_onRecord ==
  /\ pc = "parseCounties" /\ groupedRecords(groupedByStateFips) < MaxFeed
  /\ \E record \in HdrCountyRecords :
       LET pushed == pushGroup(groupedByStateFips,
                               stateFipsKey(stateNameToFips, record[3]), record)
       IN  /\ groupedByStateFips' = pushed.groups
           /\ IF pushed.error # ""
              THEN Uncaught
              ELSE pc' = pc /\ exitCode' = exitCode
  /\ UNCHANGED <<pdVars, loopKeys, fanVars, fed, latestDate, date90DaysAgo, usRows,
                 stateNameToFips, stateRows, nytData, files, files0>>

parseCounties_end ==
  /\ pc \in {"parseCounties.header", "parseCounties"}
  /\ pc' = "parseCounties.clearDir90"
  /\ UNCHANGED <<pdVars, loopKeys, fanVars, exitCode, fed, latestDate, date90DaysAgo,
                 usRows, stateNameToFips, stateRows, nytData, groupedByStateFips, files,
                 files0>>

\* await clearDir('./data/nyt/county/90d')
parseCounties_clearDir90 ==
  /\ pc = "parseCounties.clearDir90"
  /\ files' = clearDir(files, NytCounty90)
  /\ pc' = "parseCounties.clearDirAll"
  /\ UNCHANGED <<pdVars, loopKeys, fanVars, exitCode, fed, latestDate, date90DaysAgo,
                 usRows, stateNameToFips, stateRows, nytData, groupedByStateFips,
                 files0>>

\* the files the for-in loop leaves, a later key overwriting an earlier
\* one's files of the same safeFips
countyLines(fs, grouped, cutoff) ==
  LET last  == lastKeyOfName(forInKeys(grouped))
      paths == {Path(d, n) : d \in {NytCountyAll, NytCounty90}, n \in DOMAIN last}
      rows(q) == <<expectedUsCountiesHeader>> \o groupRows(grouped, last[q.name])
  IN  [q \in DOMAIN fs \cup paths |->
         IF q \in paths
         THEN IF q.dir = NytCountyAll
              THEN joinLines(rows(q))
              ELSE joinLines(filter90days(rows(q), cutoff))
         ELSE fs[q]]

\* await clearDir('./data/nyt/county/all'), then the for-in loop
parseCounties_clearDirAll ==
  /\ pc = "parseCounties.clearDirAll"
  /\ files' = countyLines(clearDir(files, NytCountyAll), groupedByStateFips,
                          date90DaysAgo)
  /\ pc' = "done" /\ exitCode' = 0
  /\ UNCHANGED <<pdVars, loopKeys, fanVars, fed, latestDate, date90DaysAgo, usRows,
                 stateNameToFips, stateRows, nytData, groupedByStateFips, files0>>

\* parseNytCsv: the parser of the feed being read emits 'error', reject(error)
hdrParseNytCsv_error ==
  /\ pc \in {"parseUs.header", "parseUs", "parseStates.header", "parseStates",
             "parseCounties.header", "parseCounties"}
  /\ Reject
  /\ UNCHANGED <<pdVars, fanVars, loopKeys, fed, latestDate, date90DaysAgo, usRows,
                 stateNameToFips, stateRows, nytData, groupedByStateFips, files,
                 files0>>

\* clearDir: fs.readdir reports an error, reject(err)
hdrClearDir_error ==
  /\ pc \in {"parseCounties.clearDir90", "parseCounties.clearDirAll"}
  /\ Reject
  /\ UNCHANGED <<pdVars, fanVars, loopKeys, fed, latestDate, date90DaysAgo, usRows,
                 stateNameToFips, stateRows, nytData, groupedByStateFips, files,
                 files0>>

InitHdr ==
  /\ loopKeys = <<>>
  /\ PdIdle /\ FanIdle
  /\ pc = "parseUs.header" /\ exitCode = -1 /\ fed = <<0, 0>>
  /\ latestDate = NullDate /\ date90DaysAgo = NullDate
  /\ usRows = <<>> /\ stateNameToFips = <<>> /\ stateRows = <<>> /\ nytData = <<>>
  /\ groupedByStateFips = <<>>
  /\ files0 = HdrPriorFiles
  /\ files = files0

NextHdr ==
  \/ parseUs_onHeader
  \/ parseUs_onRecord
  \/ parseUs_end
  \/ parseStates_onHeader
  \/ parseStates_onRecord
  \/ parseStates_end
  \/ parseCounties_onHeader
  \/ parseCounties_onRecord
  \/ parseCounties_end
  \/ parseCounties_clearDir90
  \/ parseCounties_clearDirAll
  \/ hdrParseNytCsv_error
  \/ hdrClearDir_error

SpecHdr == InitHdr /\ [][NextHdr]_vars

\* C5: when a feed's header differs from the expected columns the run aborts,
\* and from then on no output file has been written, deleted or modified by
\* the run, whichever of the three feeds carried the header.
C5_HeaderMismatchLeavesFilesUntouched ==
  pc = "aborted" => files = files0

-----------------------------------------------------------------------------
(* The first revision of the script (build.ts lines 1-306): every stage of  *)
(* buildStateFiles fetches the case feed and the testing feed together and  *)
(* waits for both with Promise.all.  A fetch is "idle" before it is         *)
(* started, then "pending", and at last "resolved" or "rejected".  A        *)
(* rejected Promise.all does not stop the other fetch of the stage.         *)

MaxFan  == 1      \* records of a case feed
MaxBody == 1      \* records of a testing feed's body

FanUsRecords ==
  {[date |-> d, cases |-> NumStr(5), deaths |-> NumStr(1)] :
     d \in {<<2020, 1, 1>>, <<2020, 4, 28>>}}
FanStateRecords ==
  {StateRow(d, <<"Alabama", <<"0", "1">>>>, <<NumStr(3), NumStr(0)>>) :
     d \in {<<2020, 1, 1>>, <<2020, 4, 28>>}}
    \cup {StateRow(<<2020, 4, 28>>, <<"Weird", <<"constructor">>>>,
                   <<NumStr(1), NumStr(0)>>)}
FanCountyRecords ==
  {CountyRow(<<2020, 4, 28>>, <<"Alabama", "Autauga">>, <<"0", "1", "0", "0", "1">>,
             <<NumStr(1), NumStr(0)>>),
   CountyRow(<<2020, 4, 28>>, <<"Puerto Rico", "Unknown">>, <<>>,
             <<NumStr(2), NumStr(0)>>),
   CountyRow(<<2020, 4, 28>>, <<"Weird", "Unknown">>, <<>>,
             <<NumStr(1), NumStr(0)>>)}
\* the national testing records carry no fips
withoutFips(row) == [f \in DOMAIN row \ {"fips"} |-> row[f]]
CtUsBodies ==
  SeqsUpTo({withoutFips(CtFull(<<>>, 20200428)), withoutFips(CtBare(<<>>, 20200428))},
           MaxBody)
CtStateBodies ==
  SeqsUpTo({CtFull(<<"0", "1">>, 20200428), CtBare(<<"0", "1">>, 20200428)}, MaxBody)

NytStateColumns ==
  <<"date", "state", "fips", "cases", "newCases", "deaths", "newDeaths", "tests",
    "newTests", "positive", "newPositive", "negative", "newNegative", "pending">>

\* the promise Promise.all([a, b]) gives, from the two promises' states
promiseAll_race(a, b) ==
  IF a = "rejected" \/ b = "rejected" THEN "rejected"
  ELSE IF a = "resolved" \/ b = "resolved" THEN "resolved"
  ELSE "pending"

promiseAll(a, b) ==
  IF a = "rejected" \/ b = "rejected" THEN "rejected"
  ELSE IF a = "resolved" /\ b = "resolved" THEN "resolved"
  ELSE "pending"

\* parseNytUs: a record of us.csv
fanNytUs_onRecord ==
  /\ fetch.nytUs = "pending" /\ Len(usRows) < MaxFan
  /\ \E record \in FanUsRecords :
       LET d == createDate(record.date) IN
       /\ latestDate' = IF latestDate.k = "null" \/ d.day > latestDate.day
                         THEN d ELSE latestDate
       /\ usRows' = Append(usRows, record)
  /\ UNCHANGED <<pdVars, loopKeys, fanVars, pc, exitCode, fed, date90DaysAgo,
                 stateNameToFips, stateRows, nytData, groupedByStateFips, files,
                 files0>>

\* parseNytUs: the feed ends, date90DaysAgo is set and usRows returned
fanNytUs_end ==
  /\ fetch.nytUs = "pending"
  /\ date90DaysAgo' = subtractWindow(latestDate)
  /\ fetch' = [fetch EXCEPT !.nytUs = "resolved"]
  /\ UNCHANGED <<pdVars, loopKeys, ctUsData, ctStateData, pc, exitCode, fed, latestDate,
                 usRows, stateNameToFips, stateRows, nytData, groupedByStateFips, files,
                 files0>>

\* parseNytCsv: the parser reports an error
fanNytUs_error ==
  /\ fetch.nytUs = "pending"
  /\ fetch' = [fetch EXCEPT !.nytUs = "rejected"]
  /\ UNCHANGED <<pdVars, ctUsData, ctStateData, runVars>>

\* parseCTJson for the national feed: the request's callback
parseCtUs_callback ==
  /\ fetch.ctUs = "pending"
  /\ \/ \E body \in CtUsBodies :
          /\ ctUsData' = body
          /\ fetch' = [fetch EXCEPT !.ctUs = "resolved"]
     \/ /\ fetch' = [fetch EXCEPT !.ctUs = "rejected"]
        /\ UNCHANGED ctUsData
  /\ UNCHANGED <<pdVars, ctStateData, runVars>>

\* row.fips = '00'
withFips00(row) == ("fips" :> <<"0", "0">>) @@ row

\* buildStateFiles after the first Promise.all: fips '00' is added to the
\* national testing rows and the two state fetches are started
buildStateFiles_afterUs ==
  /\ pc = "awaitUs"
  /\ promiseAll(fetch.nytUs, fetch.ctUs) # "pending"
  /\ IF promiseAll(fetch.nytUs, fetch.ctUs) = "resolved"
     THEN /\ ctUsData' = [i \in DOMAIN ctUsData |-> withFips00(ctUsData[i])]
          /\ fetch' = [fetch EXCEPT !.nytStates = "pending", !.ctStates = "pending"]
          /\ pc' = "awaitStates" /\ exitCode' = exitCode
     ELSE /\ Reject
          /\ UNCHANGED <<ctUsData, fetch>>
  /\ UNCHANGED <<pdVars, loopKeys, ctStateData, fed, latestDate, date90DaysAgo, usRows,
                 stateNameToFips, stateRows, nytData, groupedByStateFips, files,
                 files0>>

\* parseNytStates: a record of us-states.csv
fanNytStates_onRecord ==
  /\ fetch.nytStates = "pending" /\ Len(stateRows) < MaxFan
  /\ \E record \in FanStateRecords :
       /\ stateNameToFips' =
            IF noFipsYet(stateNameToFips, record.state)
            THEN (record.state :> record.fips) @@ stateNameToFips
            ELSE stateNameToFips
       /\ stateRows' = Append(stateRows, record)
  /\ UNCHANGED <<pdVars, loopKeys, fanVars, pc, exitCode, fed, latestDate,
                 date90DaysAgo, usRows, nytData, groupedByStateFips, files, files0>>

fanNytStates_end ==
  /\ fetch.nytStates = "pending"
  /\ fetch' = [fetch EXCEPT !.nytStates = "resolved"]
  /\ UNCHANGED <<pdVars, ctUsData, ctStateData, runVars>>

fanNytStates_error ==
  /\ fetch.nytStates = "pending"
  /\ fetch' = [fetch EXCEPT !.nytStates = "rejected"]
  /\ UNCHANGED <<pdVars, ctUsData, ctStateData, runVars>>

\* parseCTJson for the state feed: the request's callback
parseCtStates_callback ==
  /\ fetch.ctStates = "pending"
  /\ \/ \E body \in CtStateBodies :
          /\ ctStateData' = body
          /\ fetch' = [fetch EXCEPT !.ctStates = "resolved"]
     \/ /\ fetch' = [fetch EXCEPT !.ctStates = "rejected"]
        /\ UNCHANGED ctStateData
  /\ UNCHANGED <<pdVars, ctUsData, runVars>>

\* buildStateFiles after the second Promise.all: the old files are removed
\* and processData joins the testing rows and computes the deltas
buildStateFiles_afterStates ==
  /\ pc = "awaitStates"
  /\ promiseAll(fetch.nytStates, fetch.ctStates) # "pending"
  /\ IF promiseAll(fetch.nytStates, fetch.ctStates) = "resolved"
     THEN /\ files' = unlink(unlink(files, Path(NytStateDir, "90d.csv")),
                             Path(NytStateDir, "all.csv"))
          /\ nytData' = processData([i \in DOMAIN usRows |-> usAsState(usRows[i])]
                                      \o stateRows,
                                    byState, Testing(ctUsData \o ctStateData))
          /\ pc' = "writeAll" /\ exitCode' = exitCode
     ELSE /\ Reject
          /\ UNCHANGED <<nytData, files>>
  /\ UNCHANGED <<pdVars, loopKeys, fanVars, fed, latestDate, date90DaysAgo, usRows,
                 stateNameToFips, stateRows, groupedByStateFips, files0>>

\* await writeCsvFile(nytData, columns, './data/nyt/state/all.csv')
fanWriteAll ==
  /\ pc = "writeAll"
  /\ files' = writeFile(files, Path(NytStateDir, "all.csv"),
                        stringify(nytData, NytStateColumns))
  /\ pc' = "write90"
  /\ UNCHANGED <<pdVars, loopKeys, fanVars, exitCode, fed, latestDate, date90DaysAgo,
                 usRows, stateNameToFips, stateRows, nytData, groupedByStateFips,
                 files0>>

\* await writeCsvFile(rows90days, columns, './data/nyt/state/90d.csv'); then
\* run() calls buildCountyFiles, which starts the county fetch
fanWrite90 ==
  /\ pc = "write90"
  /\ files' = writeFile(files, Path(NytStateDir, "90d.csv"),
                        stringify(rows90days(nytData, date90DaysAgo), NytStateColumns))
  /\ fetch' = [fetch EXCEPT !.nytCounties = "pending"]
  /\ pc' = "awaitCounties"
  /\ UNCHANGED <<pdVars, loopKeys, ctUsData, ctStateData, exitCode, fed, latestDate,
                 date90DaysAgo, usRows, stateNameToFips, stateRows, nytData,
                 groupedByStateFips, files0>>

\* parseNytCounties: a record of us-counties.csv
fanNytCounties_onRecord ==
  /\ pc = "awaitCounties"
  /\ fetch.nytCounties = "pending" /\ groupedRecords(groupedByStateFips) < MaxFan
  /\ \E record \in FanCountyRecords :
       LET pushed == pushGroup(groupedByStateFips,
                               stateFipsKey(stateNameToFips, record.state), record)
       IN  /\ groupedByStateFips' = pushed.groups
           /\ IF pushed.error # ""
              THEN Uncaught
              ELSE pc' = pc /\ exitCode' = exitCode
  /\ UNCHANGED <<pdVars, loopKeys, fanVars, fed, latestDate, date90DaysAgo, usRows,
                 stateNameToFips, stateRows, nytData, files, files0>>

fanNytCounties_end ==
  /\ pc = "awaitCounties"
  /\ fetch.nytCounties = "pending"
  /\ fetch' = [fetch EXCEPT !.nytCounties = "resolved"]
  /\ pc' = "fanClearDir90"
  /\ UNCHANGED <<pdVars, loopKeys, ctUsData, ctStateData, exitCode, fed, latestDate,
                 date90DaysAgo, usRows, stateNameToFips, stateRows, nytData,
                 groupedByStateFips, files, files0>>

fanNytCounties_error ==
  /\ pc = "awaitCounties"
  /\ fetch.nytCounties = "pending"
  /\ fetch' = [fetch EXCEPT !.nytCounties = "rejected"]
  /\ Reject
  /\ UNCHANGED <<pdVars, loopKeys, ctUsData, ctStateData, fed, latestDate,
                 date90DaysAgo, usRows, stateNameToFips, stateRows, nytData,
                 groupedByStateFips, files, files0>>

\* await clearDir('./data/nyt/county/90d')
fanClearDir90 ==
  /\ pc = "fanClearDir90"
  /\ files' = clearDir(files, NytCounty90)
  /\ pc' = "fanClearDirAll"
  /\ UNCHANGED <<pdVars, loopKeys, fanVars, exitCode, fed, latestDate, date90DaysAgo,
                 usRows, stateNameToFips, stateRows, nytData, groupedByStateFips,
                 files0>>

\* await clearDir('./data/nyt/county/all'), then the first iteration of the
\* for-in loop up to its first await; with no group the loop ends at once
fanClearDirAll ==
  /\ pc = "fanClearDirAll"
  /\ files' = clearDir(files, NytCountyAll)
  /\ loopKeys' = forInKeys(groupedByStateFips)
  /\ IF loopKeys' = <<>>
     THEN /\ pc' = "done" /\ exitCode' = 0
          /\ UNCHANGED groupedByStateFips
     ELSE /\ pc' = "fanCountyWriteAll" /\ exitCode' = exitCode
          /\ groupedByStateFips' = processGroup(groupedByStateFips, Head(loopKeys'))
  /\ UNCHANGED <<pdVars, fanVars, fed, latestDate, date90DaysAgo, usRows,
                 stateNameToFips, stateRows, nytData, files0>>

\* await writeCsvFile(rows, columns, './data/nyt/county/all/' + safeFips + '.csv')
fanCountyWriteAll ==
  /\ pc = "fanCountyWriteAll"
  /\ files' = writeFile(files, Path(NytCountyAll, countyFileName(Head(loopKeys))),
                        stringify(groupRows(groupedByStateFips, Head(loopKeys)),
                                  CountyColumns))
  /\ pc' = "fanCountyWrite90"
  /\ UNCHANGED <<pdVars, fanVars, loopKeys, exitCode, fed, latestDate, date90DaysAgo,
                 usRows, stateNameToFips, stateRows, nytData, groupedByStateFips,
                 files0>>

\* await writeCsvFile(rows90days, columns, './data/nyt/county/90d/' + safeFips + '.csv'),
\* then the next iteration up to its first await, or the end of run()
fanCountyWrite90 ==
  /\ pc = "fanCountyWrite90"
  /\ files' = writeFile(files, Path(NytCounty90, countyFileName(Head(loopKeys))),
                        stringify(rows90days(groupRows(groupedByStateFips,
                                                       Head(loopKeys)),
                                             date90DaysAgo),
                                  CountyColumns))
  /\ loopKeys' = Tail(loopKeys)
  /\ IF loopKeys' = <<>>
     THEN /\ pc' = "done" /\ exitCode' = 0
          /\ UNCHANGED groupedByStateFips
     ELSE /\ pc' = "fanCountyWriteAll" /\ exitCode' = exitCode
          /\ groupedByStateFips' = processGroup(groupedByStateFips, Head(loopKeys'))
  /\ UNCHANGED <<pdVars, fanVars, fed, latestDate, date90DaysAgo, usRows,
                 stateNameToFips, stateRows, nytData, files0>>

\* writeCsvFile: csv.stringify reports an error, reject(err); nothing handles
\* the rejection
fanWriteCsvFile_error ==
  /\ pc \in {"writeAll", "write90", "fanCountyWriteAll", "fanCountyWrite90"}
  /\ Reject
  /\ UNCHANGED <<pdVars, fanVars, loopKeys, fed, latestDate, date90DaysAgo, usRows,
                 stateNameToFips, stateRows, nytData, groupedByStateFips, files,
                 files0>>

\* clearDir: fs.readdir reports an error, reject(err)
fanClearDir_error ==
  /\ pc \in {"fanClearDir90", "fanClearDirAll"}
  /\ Reject
  /\ UNCHANGED <<pdVars, fanVars, loopKeys, fed, latestDate, date90DaysAgo, usRows,
                 stateNameToFips, stateRows, nytData, groupedByStateFips, files,
                 files0>>

InitFan ==
  /\ loopKeys = <<>>
  /\ PdIdle
  /\ fetch = [FetchIdle EXCEPT !.nytUs = "pending", !.ctUs = "pending"]
  /\ ctUsData = <<>> /\ ctStateData = <<>>
  /\ pc = "awaitUs" /\ exitCode = -1 /\ fed = <<0, 0>>
  /\ latestDate = NullDate /\ date90DaysAgo = NullDate
  /\ usRows = <<>> /\ stateNameToFips = <<>> /\ stateRows = <<>> /\ nytData = <<>>
  /\ groupedByStateFips = <<>>
  /\ files0 = HdrPriorFiles
  /\ files = files0

NextFan ==
  \/ fanNytUs_onRecord
  \/ fanNytUs_end
  \/ fanNytUs_error
  \/ parseCtUs_callback
  \/ buildStateFiles_afterUs
  \/ fanNytStates_onRecord
  \/ fanNytStates_end
  \/ fanNytStates_error
  \/ parseCtStates_callback
  \/ buildStateFiles_afterStates
  \/ fanWriteAll
  \/ fanWrite90
  \/ fanNytCounties_onRecord
  \/ fanNytCounties_end
  \/ fanNytCounties_error
  \/ fanClearDir90
  \/ fanClearDirAll
  \/ fanCountyWriteAll
  \/ fanCountyWrite90
  \/ fanWriteCsvFile_error
  \/ fanClearDir_error

SpecFan == InitFan /\ [][NextFan]_vars

StateBuildFetches == {"nytUs", "ctUs", "nytStates", "ctStates"}
AllFetched  == \A f \in StateBuildFetches : fetch[f] = "resolved"
SomeFailed  == \E f \in StateBuildFetches : fetch[f] = "rejected"

\* C11: every step that removes or writes a file or sets the reconciled rows
\* is taken with both fetches of the national stage and both fetches of the
\* state stage resolved, and once a fetch of either stage has failed the
\* rows are never reconciled and no file is ever touched.  (Within a stage
\* the two fetches finish in either order: neither waits for the other.)
C11_ReconcileAfterBothFetches ==
  /\ [][(nytData' # nytData \/ files' # files) => AllFetched]_vars
  /\ [](SomeFailed => /\ nytData = <<>> /\ files = files0
                       /\ pc \in {"awaitUs", "awaitStates", "rejected"})

\* all four fetches have resolved and the reconciliation that followed has
\* removed the old files and joined a testing record to its case row
C11_Witness ==
  /\ pc = "writeAll" /\ AllFetched
  /\ files # files0
  /\ \E i \in DOMAIN nytData : Get(nytData[i], "tests") = Num(150)

====
